---- MODULE Spec2Model ----
(***************************************************************************)
(* Model of the mascot-madness bracket progression engine:                 *)
(*   src/src/bracket.py     Team, Division, Bracket                        *)
(*   src/src/tournament.py  Tournament.run and its helpers                 *)
(*                                                                         *)
(* Python sequences are 0-based, TLA+ sequences 1-based: Python index i is *)
(* index i+1 below (matchup "index 3" is matchups[4], teams[2i] and        *)
(* teams[2i+1] are teams[2k-1] and teams[2k] for k = i+1).                 *)
(*                                                                         *)
(* A Python call either returns a value or raises; both are modelled as a  *)
(* record [error, value] with error = "none" for a normal return.          *)
(***************************************************************************)
EXTENDS Integers, Sequences, FiniteSets, TLC

VARIABLES
    divisions,          \* Bracket.divisions: division name -> Division
    decider,            \* the simulator handed to Tournament (its behaviour)
    input_bracket,      \* the divisions as handed to Tournament.__init__
    call_count,         \* number of simulate_fight invocations so far
    faults,             \* number of faulty answers the simulator has given
    pc,                 \* position of Tournament.run
    div_idx,            \* index of the for loop over DIVISION_ORDER
    teams_count,        \* local of _run_division_rounds
    round_idx,          \* local of _run_division_rounds
    winners,            \* local of _run_division_rounds (last finished round)
    matchups,           \* local matchups of the round / the Final Four
    round_winners,      \* local winners list of _run_single_division_round
    region_winners,     \* local dict of _run_division_rounds
    final_four_winners, \* local of _run_final_four_and_championship
    finalists,          \* (finalist1, finalist2)
    fight,              \* the last simulate_fight call and its result
    champion,           \* result.winner of the championship game
    results_len,        \* len(self._results)
    error,              \* the exception that ended the run, "none" otherwise
    written,            \* the output file has been written
    call,               \* the last direct call of a Bracket method
    ncalls              \* number of direct Bracket method calls

vars == << divisions, decider, input_bracket, call_count, faults, pc, div_idx, teams_count,
           round_idx, winners, matchups, round_winners, region_winners,
           final_four_winners, finalists, fight, champion, results_len,
           error, written, call, ncalls >>

run_vars == << decider, input_bracket, call_count, faults, pc, div_idx, teams_count,
               round_idx, winners, matchups, round_winners, region_winners,
               final_four_winners, finalists, fight, champion, results_len,
               error, written >>

-----------------------------------------------------------------------------
(* Bounds of the model *)

\* the simulator gives at most this many faulty answers in a run
MaxFaults == 1

\* team lists of the input brackets are rotated by 0..MaxRot places
MaxRot == 1

\* number of direct Bracket method calls explored on one bracket
MaxCalls == 2

-----------------------------------------------------------------------------
(* src/src/bracket.py, src/src/tournament.py: module constants *)

\* variant: the semifinals pair West with South and East with Midwest
FINAL_FOUR_PAIRS_crossed == << <<"West", "South">>, <<"East", "Midwest">> >>

FINAL_FOUR_PAIRS == << <<"West", "East">>, <<"South", "Midwest">> >>

ROUND_ONE_BRACKET ==
    << <<1, 16>>, <<8, 9>>, <<5, 12>>, <<4, 13>>,
       <<6, 11>>, <<3, 14>>, <<7, 10>>, <<2, 15>> >>

DIVISION_ROUND_NAMES == << "Round of 64", "Round of 32", "Sweet 16", "Elite 8" >>

DIVISION_ORDER == << "West", "East", "South", "Midwest" >>

DivisionNames == { DIVISION_ORDER[i] : i \in DOMAIN DIVISION_ORDER }

-----------------------------------------------------------------------------
(* Values *)

\* Team(name, seed); a name is the pair <<division, number>>, standing for
\* the string f"{division}_Team_{number}" of the test brackets
Team(name, seed) == [name |-> name, seed |-> seed]

Division(name, teams) == [name |-> name, teams |-> teams]

\* a name no team carries
Nobody == <<"Nobody", 0>>

NoTeam == Team(<<"None", 0>>, 0)

Return(v) == [error |-> "none", value |-> v]

Raise(e) == [error |-> e, value |-> << >>]

SetMax(S) == CHOOSE x \in S : \A y \in S : y <= x

-----------------------------------------------------------------------------
(* Bracket *)

\* {team.seed: team for team in teams}: a later team replaces an earlier one
\* of the same seed
SeedToTeam(teams) ==
    [s \in { teams[i].seed : i \in DOMAIN teams } |->
        teams[SetMax({ i \in DOMAIN teams : teams[i].seed = s })]]

\* variant: consecutive slots are paired in every round, the round of 64
\* included (no seed table)
get_division_matchups_consecutive(divs, division_name) ==
    IF division_name \notin DOMAIN divs THEN Raise("KeyError")
    ELSE LET teams == divs[division_name].teams
             n == Len(teams)
         IN  IF n % 2 = 1
             THEN Raise("IndexError")
             ELSE Return([k \in 1 .. (n \div 2) |->
                           << teams[2 * k - 1], teams[2 * k] >>])

\* variant: later rounds pair the first slot with the last, the second with
\* the last but one, ...
get_division_matchups_folded(divs, division_name) ==
    IF division_name \notin DOMAIN divs THEN Raise("KeyError")
    ELSE LET teams == divs[division_name].teams
             n == Len(teams)
         IN  IF n = 16
             THEN LET seed_to_team == SeedToTeam(teams)
                  IN  IF \E k \in DOMAIN ROUND_ONE_BRACKET :
                            \/ ROUND_ONE_BRACKET[k][1] \notin DOMAIN seed_to_team
                            \/ ROUND_ONE_BRACKET[k][2] \notin DOMAIN seed_to_team
                      THEN Raise("KeyError")
                      ELSE Return([k \in DOMAIN ROUND_ONE_BRACKET |->
                                    << seed_to_team[ROUND_ONE_BRACKET[k][1]],
                                       seed_to_team[ROUND_ONE_BRACKET[k][2]] >>])
             ELSE IF n % 2 = 1
                  THEN Raise("IndexError")
                  ELSE Return([k \in 1 .. (n \div 2) |->
                                << teams[k], teams[n + 1 - k] >>])

\* Bracket.get_division_matchups(division_name)
get_division_matchups(divs, division_name) ==
    IF division_name \notin DOMAIN divs THEN Raise("KeyError")
    ELSE LET teams == divs[division_name].teams
             n == Len(teams)
         IN  IF n = 16
             THEN LET seed_to_team == SeedToTeam(teams)
                  IN  IF \E k \in DOMAIN ROUND_ONE_BRACKET :
                            \/ ROUND_ONE_BRACKET[k][1] \notin DOMAIN seed_to_team
                            \/ ROUND_ONE_BRACKET[k][2] \notin DOMAIN seed_to_team
                      THEN Raise("KeyError")
                      ELSE Return([k \in DOMAIN ROUND_ONE_BRACKET |->
                                    << seed_to_team[ROUND_ONE_BRACKET[k][1]],
                                       seed_to_team[ROUND_ONE_BRACKET[k][2]] >>])
             ELSE IF n % 2 = 1
                  THEN Raise("IndexError")      \* teams[i + 1] past the end
                  ELSE Return([k \in 1 .. (n \div 2) |->
                                << teams[2 * k - 1], teams[2 * k] >>])

\* variant: the winners list replaces the team list of every division
advance_round_everywhere(divs, division_name, new_teams) ==
    IF division_name \notin DOMAIN divs THEN Raise("KeyError")
    ELSE Return([d \in DOMAIN divs |-> [divs[d] EXCEPT !.teams = new_teams]])

\* Bracket.advance_round(division_name, winners): the new divisions mapping
advance_round(divs, division_name, new_teams) ==
    IF division_name \notin DOMAIN divs THEN Raise("KeyError")
    ELSE Return([divs EXCEPT ![division_name].teams = new_teams])

\* region_winners[key] for both keys of one FINAL_FOUR_PAIRS entry
FinalFourPair(rw, pair) == << rw[pair[1]], rw[pair[2]] >>

\* variant: a pair lacking one of its region winners is left out
get_final_four_matchups_partial(rw) ==
    LET present == { k \in DOMAIN FINAL_FOUR_PAIRS :
                        /\ FINAL_FOUR_PAIRS[k][1] \in DOMAIN rw
                        /\ FINAL_FOUR_PAIRS[k][2] \in DOMAIN rw }
    IN  Return([k \in 1 .. Cardinality(present) |->
                   FinalFourPair(rw, FINAL_FOUR_PAIRS[
                       CHOOSE j \in present :
                           Cardinality({ i \in present : i <= j }) = k])])

\* Bracket.get_final_four_matchups(region_winners)
get_final_four_matchups(rw) ==
    IF \E k \in DOMAIN FINAL_FOUR_PAIRS :
          \/ FINAL_FOUR_PAIRS[k][1] \notin DOMAIN rw
          \/ FINAL_FOUR_PAIRS[k][2] \notin DOMAIN rw
    THEN Raise("KeyError")
    ELSE Return([k \in DOMAIN FINAL_FOUR_PAIRS |->
                    FinalFourPair(rw, FINAL_FOUR_PAIRS[k])])

\* variant: the finalists come out in reverse order
get_championship_matchup_swapped(ffw) ==
    IF Len(ffw) < 2 THEN Raise("IndexError")
    ELSE Return(<< ffw[2], ffw[1] >>)

\* Bracket.get_championship_matchup(final_four_winners)
get_championship_matchup(ffw) ==
    IF Len(ffw) < 2 THEN Raise("IndexError")
    ELSE Return(<< ffw[1], ffw[2] >>)

-----------------------------------------------------------------------------
(* Input brackets *)

\* the teams of the test bracket: f"{d}_Team_{i}" with seed i, i = 1..16
NaturalTeams(d) == [i \in 1 .. 16 |-> Team(<<d, i>>, i)]

\* the list s rotated left by k places
Rotate(s, k) == [i \in 1 .. Len(s) |-> s[((i - 1 + k) % Len(s)) + 1]]

\* 4 divisions of 16 teams, every team list rotated by k
FullBracket(k) ==
    [d \in DivisionNames |-> Division(d, Rotate(NaturalTeams(d), k))]

\* the natural bracket without division d0
MissingBracket(d0) ==
    [d \in DivisionNames \ {d0} |-> Division(d, NaturalTeams(d))]

\* the natural bracket whose division d0 holds only its first n teams
ShortBracket(d0, n) ==
    [d \in DivisionNames |->
        Division(d, IF d = d0 THEN SubSeq(NaturalTeams(d), 1, n)
                              ELSE NaturalTeams(d))]

ValidBrackets == { FullBracket(k) : k \in 0 .. MaxRot }

MalformedBrackets ==
    { MissingBracket(d0) : d0 \in {"East", "Midwest"} }
        \cup { ShortBracket(d0, 15) : d0 \in {"West", "East"} }

\* every division present holds 16 teams with each seed 1..16 exactly once
\* (16 teams covering 16 seeds carry each seed exactly once)
ValidDivision(dv) ==
    /\ Len(dv.teams) = 16
    /\ \A s \in 1 .. 16 : \E i \in DOMAIN dv.teams : dv.teams[i].seed = s

ValidBracket(divs) ==
    /\ DOMAIN divs = DivisionNames
    /\ \A d \in DOMAIN divs : ValidDivision(divs[d])

-----------------------------------------------------------------------------
(* The simulator: simulate_fight(team1, team2) -> FightResult *)

Scopes == DivisionNames \cup {"None", "Final"}

\* A simulator answers by its rule (the first or the second name wins),
\* except in the games of its scope, where either name may win; a faulty
\* simulator may also name a winner that is neither team, or raise.
Deciders ==
    [rule : {"first", "second"}, scope : Scopes,
     fault : {"none", "wrong_winner", "raise"}]

\* simulators that follow their rule in every game, faulty ones included
RuleDeciders == { dec \in Deciders : dec.scope = "None" }

\* simulators that never fail and are unconstrained in the games of a scope
FreeDeciders == { dec \in Deciders : dec.scope # "None" /\ dec.fault = "none" }

AlwaysFirstSimulator == [rule |-> "first", scope |-> "None", fault |-> "none"]

InScope(dec, n1, n2) ==
    IF n1[1] = n2[1] THEN dec.scope = n1[1] ELSE dec.scope = "Final"

FightResult(w, l) == [winner |-> w, loser |-> l, raised |-> FALSE]

\* the results simulate_fight(n1, n2) can produce
simulate_fight(dec, flt, n1, n2) ==
    { FightResult(n1, n2) : x \in { y \in {1} : dec.rule = "first" \/ InScope(dec, n1, n2) } }
        \cup { FightResult(n2, n1) : x \in { y \in {1} : dec.rule = "second" \/ InScope(dec, n1, n2) } }
        \cup { FightResult(Nobody, n2) : x \in { y \in {1} : dec.fault = "wrong_winner" /\ flt < MaxFaults } }
        \cup { [winner |-> Nobody, loser |-> Nobody, raised |-> TRUE] :
                 x \in { y \in {1} : dec.fault = "raise" /\ flt < MaxFaults } }

\* variant: the comparison is made against the second team's name
PickWinner_second(result, team1, team2) ==
    IF result.winner = team2.name THEN team1 ELSE team2

\* winner = team1 if result.winner == team1.name else team2
PickWinner(result, team1, team2) ==
    IF result.winner = team1.name THEN team1 ELSE team2

IsFault(result) == result.raised \/ result.winner = Nobody

NoFight == [team1 |-> NoTeam.name, team2 |-> NoTeam.name,
            winner |-> NoTeam.name, label |-> "none"]

NoCall == [op |-> "none", division |-> "none", arg |-> << >>,
           error |-> "none", value |-> << >>]

-----------------------------------------------------------------------------
(* Tournament.run *)

RunInputs ==
    (ValidBrackets \X FreeDeciders)
        \cup ((ValidBrackets \cup MalformedBrackets) \X RuleDeciders)

\* Tournament.__init__ and the locals of run before its first statement
RunInit(bracket, simulator) ==
    /\ divisions = bracket
    /\ decider = simulator
    /\ input_bracket = bracket
    /\ call_count = 0
    /\ faults = 0
    /\ pc = "start"
    /\ div_idx = 1
    /\ teams_count = 0
    /\ round_idx = 0
    /\ winners = << >>
    /\ matchups = << >>
    /\ round_winners = << >>
    /\ region_winners = << >>
    /\ final_four_winners = << >>
    /\ finalists = << >>
    /\ fight = NoFight
    /\ champion = NoTeam.name
    /\ results_len = 0
    /\ error = "none"
    /\ written = FALSE
    /\ call = NoCall
    /\ ncalls = 0

Init == \E inp \in RunInputs : RunInit(inp[1], inp[2])

\* an exception leaves run: nothing after the raising statement executes
Abort(e) ==
    /\ pc' = "error"
    /\ error' = e

CurrentDivision == DIVISION_ORDER[div_idx]

\* round_name of _run_division_rounds ("Round of n" is kept as the number n)
RoundName ==
    IF round_idx < Len(DIVISION_ROUND_NAMES)
    THEN DIVISION_ROUND_NAMES[round_idx + 1]
    ELSE "Round of n"

\* variant: the loop stops one round early
RoundsRemain_early(tc) == tc > 2

\* while teams_count > 1
RoundsRemain(tc) == tc > 1

\* run: the three header lines, then _run_division_rounds begins
Start ==
    /\ pc = "start"
    /\ results_len' = results_len + 3
    /\ region_winners' = << >>
    /\ div_idx' = 1
    /\ pc' = "division_loop"
    /\ UNCHANGED << divisions, decider, input_bracket, call_count, faults, teams_count,
                    round_idx, winners, matchups, round_winners,
                    final_four_winners, finalists, fight, champion, error,
                    written, call, ncalls >>

\* for division_name in DIVISION_ORDER: a division the bracket lacks is skipped
SkipDivision ==
    /\ pc = "division_loop"
    /\ div_idx <= Len(DIVISION_ORDER)
    /\ CurrentDivision \notin DOMAIN divisions
    /\ div_idx' = div_idx + 1
    /\ UNCHANGED << divisions, decider, input_bracket, call_count, faults, pc, teams_count,
                    round_idx, winners, matchups, round_winners,
                    region_winners, final_four_winners, finalists, fight,
                    champion, results_len, error, written, call, ncalls >>

\* the division header, teams_count and round_idx
BeginDivision ==
    /\ pc = "division_loop"
    /\ div_idx <= Len(DIVISION_ORDER)
    /\ CurrentDivision \in DOMAIN divisions
    /\ results_len' = results_len + 4
    /\ teams_count' = Len(divisions[CurrentDivision].teams)
    /\ round_idx' = 0
    /\ pc' = "round_loop"
    /\ UNCHANGED << divisions, decider, input_bracket, call_count, faults, div_idx, winners,
                    matchups, round_winners, region_winners,
                    final_four_winners, finalists, fight, champion, error,
                    written, call, ncalls >>

\* while teams_count > 1: _run_single_division_round up to its for loop
StartRound ==
    /\ pc = "round_loop"
    /\ RoundsRemain(teams_count)
    /\ LET r == get_division_matchups(divisions, CurrentDivision)
       IN  IF r.error # "none"
           THEN /\ Abort(r.error)
                /\ UNCHANGED << matchups, round_winners, results_len >>
           ELSE /\ matchups' = r.value
                /\ round_winners' = << >>
                /\ results_len' = results_len + 2
                /\ pc' = "game"
                /\ error' = error
    /\ UNCHANGED << divisions, decider, input_bracket, call_count, faults, div_idx,
                    teams_count, round_idx, winners, region_winners,
                    final_four_winners, finalists, fight, champion, written,
                    call, ncalls >>

\* one iteration of the for loop of _run_single_division_round
PlayGame ==
    /\ pc = "game"
    /\ Len(round_winners) < Len(matchups)
    /\ LET team1 == matchups[Len(round_winners) + 1][1]
           team2 == matchups[Len(round_winners) + 1][2]
       IN  \E result \in simulate_fight(decider, faults, team1.name, team2.name) :
              /\ call_count' = call_count + 1
              /\ faults' = IF IsFault(result) THEN faults + 1 ELSE faults
              /\ IF result.raised
                 THEN /\ Abort("CollaboratorFailure")
                      /\ UNCHANGED << round_winners, fight, results_len >>
                 ELSE /\ fight' = [team1 |-> team1.name, team2 |-> team2.name,
                                   winner |-> result.winner, label |-> RoundName]
                      /\ results_len' = results_len + 4
                      /\ round_winners' =
                            Append(round_winners, PickWinner(result, team1, team2))
                      /\ UNCHANGED << pc, error >>
    /\ UNCHANGED << divisions, decider, input_bracket, div_idx, teams_count, round_idx,
                    winners, matchups, region_winners, final_four_winners,
                    finalists, champion, written, call, ncalls >>

\* the round's winners are returned and advance_round replaces the team list
EndRound ==
    /\ pc = "game"
    /\ Len(round_winners) = Len(matchups)
    /\ winners' = round_winners
    /\ divisions' = advance_round(divisions, CurrentDivision, round_winners).value
    /\ teams_count' = Len(round_winners)
    /\ round_idx' = round_idx + 1
    /\ pc' = "round_loop"
    /\ UNCHANGED << decider, input_bracket, call_count, faults, div_idx, matchups,
                    round_winners, region_winners, final_four_winners,
                    finalists, fight, champion, results_len, error, written,
                    call, ncalls >>

\* after the while loop: champion = teams[0], region_winners[name] = champion
CrownRegion ==
    /\ pc = "round_loop"
    /\ ~RoundsRemain(teams_count)
    /\ IF Len(divisions[CurrentDivision].teams) = 0
       THEN /\ Abort("IndexError")
            /\ UNCHANGED << region_winners, results_len, div_idx >>
       ELSE /\ region_winners' =
                  [d \in DOMAIN region_winners \cup {CurrentDivision} |->
                      IF d = CurrentDivision
                      THEN divisions[CurrentDivision].teams[1]
                      ELSE region_winners[d]]
            /\ results_len' = results_len + 2
            /\ div_idx' = div_idx + 1
            /\ pc' = "division_loop"
            /\ error' = error
    /\ UNCHANGED << divisions, decider, input_bracket, call_count, faults, teams_count,
                    round_idx, winners, matchups, round_winners,
                    final_four_winners, finalists, fight, champion, written,
                    call, ncalls >>

\* _run_division_rounds returns; _run_final_four_and_championship builds the
\* semifinals
StartFinalFour ==
    /\ pc = "division_loop"
    /\ div_idx > Len(DIVISION_ORDER)
    /\ LET r == get_final_four_matchups(region_winners)
       IN  IF r.error # "none"
           THEN /\ Abort(r.error)
                /\ UNCHANGED << matchups, final_four_winners >>
           ELSE /\ matchups' = r.value
                /\ final_four_winners' = << >>
                /\ pc' = "semifinal"
                /\ error' = error
    /\ results_len' = results_len + 3
    /\ UNCHANGED << divisions, decider, input_bracket, call_count, faults, div_idx,
                    teams_count, round_idx, winners, round_winners,
                    region_winners, finalists, fight, champion, written,
                    call, ncalls >>

\* one iteration of the semifinal loop
PlaySemifinal ==
    /\ pc = "semifinal"
    /\ Len(final_four_winners) < Len(matchups)
    /\ LET team1 == matchups[Len(final_four_winners) + 1][1]
           team2 == matchups[Len(final_four_winners) + 1][2]
       IN  \E result \in simulate_fight(decider, faults, team1.name, team2.name) :
              /\ call_count' = call_count + 1
              /\ faults' = IF IsFault(result) THEN faults + 1 ELSE faults
              /\ IF result.raised
                 THEN /\ Abort("CollaboratorFailure")
                      /\ fight' = fight
                      /\ final_four_winners' = final_four_winners
                      /\ results_len' = results_len + 2
                 ELSE /\ fight' = [team1 |-> team1.name, team2 |-> team2.name,
                                   winner |-> result.winner, label |-> "Final Four"]
                      /\ results_len' = results_len + 6
                      /\ final_four_winners' =
                            Append(final_four_winners, PickWinner(result, team1, team2))
                      /\ UNCHANGED << pc, error >>
    /\ UNCHANGED << divisions, decider, input_bracket, div_idx, teams_count, round_idx,
                    winners, matchups, round_winners, region_winners,
                    finalists, champion, written, call, ncalls >>

\* finalist1, finalist2 = get_championship_matchup(final_four_winners)
StartChampionship ==
    /\ pc = "semifinal"
    /\ Len(final_four_winners) = Len(matchups)
    /\ LET r == get_championship_matchup(final_four_winners)
       IN  IF r.error # "none"
           THEN /\ Abort(r.error)
                /\ UNCHANGED << finalists, results_len >>
           ELSE /\ finalists' = r.value
                /\ results_len' = results_len + 4
                /\ pc' = "championship"
                /\ error' = error
    /\ UNCHANGED << divisions, decider, input_bracket, call_count, faults, div_idx,
                    teams_count, round_idx, winners, matchups, round_winners,
                    region_winners, final_four_winners, fight, champion,
                    written, call, ncalls >>

\* the championship game and the champion banner
PlayChampionship ==
    /\ pc = "championship"
    /\ \E result \in simulate_fight(decider, faults, finalists[1].name, finalists[2].name) :
          /\ call_count' = call_count + 1
          /\ faults' = IF IsFault(result) THEN faults + 1 ELSE faults
          /\ IF result.raised
             THEN /\ Abort("CollaboratorFailure")
                  /\ UNCHANGED << fight, champion, results_len >>
             ELSE /\ fight' = [team1 |-> finalists[1].name,
                               team2 |-> finalists[2].name,
                               winner |-> result.winner, label |-> "Championship"]
                  /\ champion' = result.winner
                  /\ results_len' = results_len + 7
                  /\ pc' = "write"
                  /\ error' = error
    /\ UNCHANGED << divisions, decider, input_bracket, div_idx, teams_count, round_idx,
                    winners, matchups, round_winners, region_winners,
                    final_four_winners, finalists, written, call, ncalls >>

\* _write_output
WriteOutput ==
    /\ pc = "write"
    /\ written' = TRUE
    /\ pc' = "done"
    /\ UNCHANGED << divisions, decider, input_bracket, call_count, faults, div_idx,
                    teams_count, round_idx, winners, matchups, round_winners,
                    region_winners, final_four_winners, finalists, fight,
                    champion, results_len, error, call, ncalls >>

Next ==
    \/ Start
    \/ SkipDivision
    \/ BeginDivision
    \/ StartRound
    \/ PlayGame
    \/ EndRound
    \/ CrownRegion
    \/ StartFinalFour
    \/ PlaySemifinal
    \/ StartChampionship
    \/ PlayChampionship
    \/ WriteOutput

Spec == Init /\ [][Next]_vars

\* inputs of the runs followed to their end: free simulators on the test
\* bracket only
FairInputs ==
    ({ FullBracket(0) } \X FreeDeciders)
        \cup ((ValidBrackets \cup MalformedBrackets) \X RuleDeciders)

FairInit == \E inp \in FairInputs : RunInit(inp[1], inp[2])

\* run is one sequential thread: while a statement remains, it is executed
FairSpec == FairInit /\ [][Next]_vars /\ WF_vars(Next)

-----------------------------------------------------------------------------
(* Direct calls of the Bracket methods, as src/tests/test_bracket.py makes   *)
(* them: any method, any division name, argument lists of any length.       *)

Reverse(s) == [i \in 1 .. Len(s) |-> s[Len(s) + 1 - i]]

\* the first (j = 1) or second (j = 2) team of every matchup
Side(ms, j) == [k \in DOMAIN ms |-> ms[k][j]]

\* s with its last element replaced by its first
DupFirst(s) == [i \in 1 .. Len(s) |-> IF i = Len(s) THEN s[1] ELSE s[i]]

ArgLens == {0, 1, 2, 4, 6, 8, 15, 16}

\* winners lists handed to advance_round for division d
WinnerArgs(divs, d) ==
    IF d \notin DOMAIN divs THEN { << >> }
    ELSE LET t == divs[d].teams
             r == get_division_matchups(divs, d)
             picks == IF r.error = "none"
                      THEN { Side(r.value, 1), Side(r.value, 2) }
                      ELSE { }
             prefixes == { SubSeq(Reverse(t), 1, n) :
                             n \in { m \in ArgLens : m <= Len(t) } }
         IN  picks \cup prefixes \cup { DupFirst(t) }

\* teams handed to the cross-division composer as winner of region d
ComposerTeams(d) ==
    IF d \in {"West", "Midwest"}
    THEN { Team(<<d, 1>>, 1), Team(<<d, 16>>, 16) }
    ELSE { Team(<<d, 1>>, 1) }

\* region_winners dicts: all four keys, or one key missing
RegionWinnerArgs ==
    { rw \in UNION { [ks -> UNION { ComposerTeams(d) : d \in DivisionNames }] :
                        ks \in { DivisionNames } \cup
                               { DivisionNames \ {d} : d \in DivisionNames } } :
        \A d \in DOMAIN rw : rw[d] \in ComposerTeams(d) }

\* final_four_winners lists of 0..3 teams
FinalFourWinnerArgs ==
    LET ts == { Team(<<"West", 1>>, 1), Team(<<"South", 16>>, 16) }
    IN  UNION { [1 .. n -> ts] : n \in 0 .. 3 }

CallInit ==
    \E b \in ValidBrackets \cup { MissingBracket("Midwest") } :
        RunInit(b, AlwaysFirstSimulator)

CallGetDivisionMatchups ==
    /\ ncalls < MaxCalls
    /\ \E d \in DivisionNames :
        /\ LET r == get_division_matchups(divisions, d)
           IN  call' = [op |-> "get_division_matchups", division |-> d,
                        arg |-> << >>, error |-> r.error, value |-> r.value]
        /\ ncalls' = ncalls + 1
        /\ UNCHANGED divisions
        /\ UNCHANGED run_vars

CallAdvanceRound ==
    /\ ncalls < MaxCalls
    /\ \E d \in DivisionNames :
        \E ws \in WinnerArgs(divisions, d) :
            /\ LET r == advance_round(divisions, d, ws)
               IN  /\ call' = [op |-> "advance_round", division |-> d,
                               arg |-> ws, error |-> r.error, value |-> << >>]
                   /\ divisions' = IF r.error = "none" THEN r.value ELSE divisions
            /\ ncalls' = ncalls + 1
            /\ UNCHANGED run_vars

CallGetFinalFourMatchups ==
    /\ ncalls < MaxCalls
    /\ \E rw \in RegionWinnerArgs :
        /\ LET r == get_final_four_matchups(rw)
           IN  call' = [op |-> "get_final_four_matchups", division |-> "none",
                        arg |-> rw, error |-> r.error, value |-> r.value]
        /\ ncalls' = ncalls + 1
        /\ UNCHANGED divisions
        /\ UNCHANGED run_vars

CallGetChampionshipMatchup ==
    /\ ncalls < MaxCalls
    /\ \E ffw \in FinalFourWinnerArgs :
        /\ LET r == get_championship_matchup(ffw)
           IN  call' = [op |-> "get_championship_matchup", division |-> "none",
                        arg |-> ffw, error |-> r.error, value |-> r.value]
        /\ ncalls' = ncalls + 1
        /\ UNCHANGED divisions
        /\ UNCHANGED run_vars

CallNext ==
    \/ CallGetDivisionMatchups
    \/ CallAdvanceRound
    \/ CallGetFinalFourMatchups
    \/ CallGetChampionshipMatchup

SpecBracket == CallInit /\ [][CallNext]_vars

-----------------------------------------------------------------------------
(* Properties *)

\* the division the last direct call named is present in the bracket
CalledDivisionPresent == call.division \in DOMAIN divisions

CalledTeams == divisions[call.division].teams

\* C1: for every division holding 16 teams that carry each seed 1..16 exactly
\* once, in any list order, get_division_matchups returns exactly 8 pairs of
\* teams of that division whose seeds are, position by position,
\* (1,16),(8,9),(5,12),(4,13),(6,11),(3,14),(7,10),(2,15).
C1_RoundOneSeedTable ==
    ( /\ call.op = "get_division_matchups"
      /\ CalledDivisionPresent
      /\ ValidDivision(divisions[call.division]) )
    => /\ call.error = "none"
       /\ Len(call.value) = 8
       /\ \A k \in 1 .. 8 :
             /\ << call.value[k][1].seed, call.value[k][2].seed >> =
                   << <<1, 16>>, <<8, 9>>, <<5, 12>>, <<4, 13>>,
                      <<6, 11>>, <<3, 14>>, <<7, 10>>, <<2, 15>> >>[k]
             /\ \A j \in 1 .. 2 :
                   \E i \in DOMAIN CalledTeams : CalledTeams[i] = call.value[k][j]

\* C1 witness: the matchups of a valid 16-team division whose list does not
\* start with its 1-seed have been returned
C1_Witness ==
    /\ call.op = "get_division_matchups"
    /\ CalledDivisionPresent
    /\ ValidDivision(divisions[call.division])
    /\ CalledTeams[1].seed # 1
    /\ call.error = "none"
    /\ call.value[1][1].seed = 1

\* C2: for every division whose team list has even length N in {8,4,2},
\* get_division_matchups returns exactly N/2 pairs, pair k being the teams of
\* slots 2k-1 and 2k of the list as it stands (no re-sorting by seed).
C2_ConsecutivePairs ==
    ( /\ call.op = "get_division_matchups"
      /\ CalledDivisionPresent
      /\ Len(CalledTeams) \in {8, 4, 2} )
    => /\ call.error = "none"
       /\ Len(call.value) * 2 = Len(CalledTeams)
       /\ \A k \in DOMAIN call.value :
             call.value[k] = << CalledTeams[2 * k - 1], CalledTeams[2 * k] >>

\* C2 witness: the matchups of an 8-team list that is not in seed order
C2_Witness ==
    /\ call.op = "get_division_matchups"
    /\ CalledDivisionPresent
    /\ Len(CalledTeams) = 8
    /\ CalledTeams[1].seed > CalledTeams[2].seed
    /\ call.error = "none"
    /\ call.value[1] = << CalledTeams[1], CalledTeams[2] >>

\* C3: once round one of a 16-team division has been played and its winners
\* advanced in matchup order, the last round-two matchup pairs the winner of
\* the 7-vs-10 game with the winner of the 2-vs-15 game, whoever won.
\* (Round one had 8 games exactly when the division held 16 teams carrying
\* every seed of the table; winners is the list returned for that round.)
C3_UpsetMeetsSevenTenWinner ==
    ( /\ pc = "game"
      /\ round_idx = 1
      /\ Len(winners) = 8 )
    => /\ Len(matchups) = 4
       /\ matchups[4] = << winners[7], winners[8] >>
       /\ winners[7].seed \in {7, 10}
       /\ winners[8].seed \in {2, 15}
       /\ divisions[CurrentDivision].teams = winners

\* C3 witness: the 15-seed won round one and meets the 7-seed in round two
C3_Witness ==
    /\ pc = "game"
    /\ round_idx = 1
    /\ Len(winners) = 8
    /\ Len(matchups) = 4
    /\ matchups[4][1].seed = 7
    /\ matchups[4][2].seed = 15

\* C4: advance_round(d, winners) leaves division d holding exactly winners
\* (same elements, same order) and every other division as it was.
C4_AdvanceReplacesOnlyThatDivision ==
    [][ ( /\ ncalls' = ncalls + 1
          /\ call'.op = "advance_round"
          /\ call'.division \in DOMAIN divisions )
        => /\ call'.error = "none"
           /\ DOMAIN divisions' = DOMAIN divisions
           /\ divisions'[call'.division].teams = call'.arg
           /\ divisions'[call'.division].name = divisions[call'.division].name
           /\ \A d \in DOMAIN divisions \ {call'.division} :
                 divisions'[d] = divisions[d] ]_vars

\* C4 witness: a division was advanced to 8 winners in an order of their own
\* while another division still holds its 16 teams
C4_Witness ==
    /\ call.op = "advance_round"
    /\ call.error = "none"
    /\ Len(call.arg) = 8
    /\ call.arg[1].seed > call.arg[2].seed
    /\ CalledTeams = call.arg
    /\ \E d \in DOMAIN divisions \ {call.division} :
          divisions[d].teams = NaturalTeams(d)

\* C5: for every mapping {West:W, East:E, South:S, Midwest:M},
\* get_final_four_matchups returns exactly the two pairs (W,E) and (S,M), in
\* that order, whatever the teams' seeds.
C5_FinalFourPairs ==
    ( /\ call.op = "get_final_four_matchups"
      /\ DOMAIN call.arg = {"West", "East", "South", "Midwest"} )
    => /\ call.error = "none"
       /\ call.value = << << call.arg["West"], call.arg["East"] >>,
                          << call.arg["South"], call.arg["Midwest"] >> >>

\* C5 witness: semifinals built from region winners in which a 16-seed stands
\* for the West and a 1-seed for the East
C5_Witness ==
    /\ call.op = "get_final_four_matchups"
    /\ DOMAIN call.arg = {"West", "East", "South", "Midwest"}
    /\ call.arg["West"].seed = 16
    /\ call.arg["East"].seed = 1
    /\ call.error = "none"
    /\ Len(call.value) = 2

\* C6: for every two-element list [A, B] of semifinal winners,
\* get_championship_matchup returns exactly (A, B), in the order given.
C6_ChampionshipPair ==
    ( /\ call.op = "get_championship_matchup"
      /\ Len(call.arg) = 2 )
    => /\ call.error = "none"
       /\ call.value = << call.arg[1], call.arg[2] >>

\* C6 witness: the championship pair of two different semifinal winners
C6_Witness ==
    /\ call.op = "get_championship_matchup"
    /\ Len(call.arg) = 2
    /\ call.arg[1] # call.arg[2]
    /\ call.error = "none"
    /\ call.value[1] = call.arg[1]

\* C7: a run on a bracket of 4 divisions of 16 teams whose simulator always
\* names one of the two teams invokes it 15 times per division (60), then
\* twice for the semifinals, then once for the championship: 63 times in a
\* complete run, whatever the outcomes.
C7_SixtyThreeGames ==
    ( /\ pc \in {"division_loop", "semifinal", "championship", "write", "done"}
      /\ faults = 0
      /\ ValidBracket(input_bracket) )
    => /\ pc = "division_loop" => call_count = 15 * (div_idx - 1)
       /\ pc = "semifinal" => call_count = 60 + Len(final_four_winners)
       /\ pc = "championship" => call_count = 62
       /\ pc \in {"write", "done"} => call_count = 63

\* C7 witness: a complete run with upsets (the champion is no 1-seed)
C7_Witness ==
    /\ pc = "done"
    /\ faults = 0
    /\ ValidBracket(input_bracket)
    /\ call_count = 63
    /\ champion[2] # 1

\* every division lists its teams in seed order 1..16
NaturalSeeding(b) ==
    /\ DOMAIN b = DivisionNames
    /\ \A d \in DOMAIN b :
          /\ Len(b[d].teams) = 16
          /\ \A i \in 1 .. 16 : b[d].teams[i].seed = i

\* C8: when every division is seeded 1..16 in natural order and the simulator
\* always picks its first-named team, the reported champion is the West
\* division's 1-seed.
C8_AlwaysFirstCrownsWestTopSeed ==
    ( /\ pc \in {"write", "done"}
      /\ decider.rule = "first"
      /\ decider.scope = "None"
      /\ faults = 0
      /\ NaturalSeeding(input_bracket) )
    => champion = input_bracket["West"].teams[1].name

\* C8 witness: such a run is complete
C8_Witness ==
    /\ pc = "done"
    /\ decider = AlwaysFirstSimulator
    /\ NaturalSeeding(input_bracket)
    /\ call_count = 63
    /\ champion = <<"West", 1>>

\* C9: an outcome whose winner is neither of the two names the simulator was
\* given aborts the run: no further game is played and no team is advanced
\* on the basis of that outcome.
C9_WrongWinnerAborts ==
    ( /\ fight # NoFight
      /\ fight.winner \notin { fight.team1, fight.team2 } )
    => pc = "error"

\* only 3 of the 4 divisions are present, or some division holds 15 teams
Malformed(b) ==
    \/ Cardinality(DOMAIN b) = 3
    \/ \E d \in DOMAIN b : Len(b[d].teams) = 15

\* C10: a run on a malformed bracket aborts before the simulator is invoked
\* even once.
C10_MalformedAbortsBeforeAnyGame ==
    Malformed(input_bracket) => call_count = 0

\* C11: whenever an error occurs during a run (the simulator fails, gives an
\* invalid outcome, or the bracket is malformed) the run halts there and the
\* report is never written; the report is written only after the championship
\* game has been resolved.
C11_ErrorsHaltBeforeReport ==
    /\ ( \/ error # "none"
         \/ faults > 0 )
       => /\ ~written
          /\ pc = "error"
    /\ written => fight.label = "Championship"

\* C12: get_final_four_matchups raises, and returns no pairs, whenever
\* region_winners lacks any of the keys West, East, South, Midwest.
C12_MissingRegionWinnerRaises ==
    ( /\ call.op = "get_final_four_matchups"
      /\ \E d \in {"West", "East", "South", "Midwest"} : d \notin DOMAIN call.arg )
    => /\ call.error # "none"
       /\ call.value = << >>

\* C12 witness: the call was made without the Midwest winner (the first pair
\* is complete) and raised KeyError
C12_Witness ==
    /\ call.op = "get_final_four_matchups"
    /\ DOMAIN call.arg = {"West", "East", "South"}
    /\ call.error = "KeyError"

\* C13: get_championship_matchup raises whenever final_four_winners does not
\* hold exactly two elements; it never builds a pair from part of a longer
\* list.
C13_ChampionshipNeedsExactlyTwo ==
    ( /\ call.op = "get_championship_matchup"
      /\ Len(call.arg) # 2 )
    => call.error # "none"

\* C15: get_division_matchups on a division reduced to exactly 1 team returns
\* the empty sequence and raises nothing.
C15_OneTeamHasNoMatchups ==
    ( /\ call.op = "get_division_matchups"
      /\ CalledDivisionPresent
      /\ Len(CalledTeams) = 1 )
    => /\ call.error = "none"
       /\ call.value = << >>

\* C16: get_division_matchups raises for every division whose team count is
\* not a power of two and for a 16-team division lacking a seed of 1..16; it
\* never returns matchups for such a division.
C16_BadDivisionRaises ==
    ( /\ call.op = "get_division_matchups"
      /\ CalledDivisionPresent
      /\ \/ Len(CalledTeams) \notin {1, 2, 4, 8, 16, 32}
         \/ Len(CalledTeams) = 16 /\ ~ValidDivision(divisions[call.division]) )
    => call.error # "none"

\* C17: advance_round(d, winners) with len(winners) different from half the
\* team count of division d is rejected and leaves the division unchanged.
C17_MismatchedWinnersRejected ==
    [][ ( /\ ncalls' = ncalls + 1
          /\ call'.op = "advance_round"
          /\ call'.division \in DOMAIN divisions
          /\ 2 * Len(call'.arg) # Len(divisions[call'.division].teams) )
        => /\ call'.error # "none"
           /\ divisions' = divisions ]_vars

\* the phase of the run: NotStarted, DivisionRounds, FinalFour, Championship,
\* Complete (report being written, report written); an aborted run is last
PhaseRank ==
    CASE pc = "start" -> 0
      [] pc \in {"division_loop", "round_loop", "game"} -> 1
      [] pc = "semifinal" -> 2
      [] pc = "championship" -> 3
      [] pc = "write" -> 4
      [] pc = "done" -> 5
      [] OTHER -> 6

\* C14: the phases of a run occur in the order DivisionRounds, FinalFour,
\* Championship, Complete: no semifinal is decided until each of the four
\* divisions has exactly one team left (a division is left behind only with
\* one team), the championship is decided only
\* after exactly 2 semifinals, the run completes after exactly 1 championship
\* game; and a run on a valid bracket whose simulator always answers reaches
\* Complete.
C14_PhaseOrder ==
    /\ [](pc \in {"semifinal", "championship", "write", "done"}
            => /\ DOMAIN divisions = {"West", "East", "South", "Midwest"}
               /\ \A d \in DOMAIN divisions : Len(divisions[d].teams) = 1
               /\ Len(matchups) = 2)
    /\ [](pc = "division_loop"
            => \A i \in 1 .. (div_idx - 1) :
                  DIVISION_ORDER[i] \in DOMAIN divisions
                     => Len(divisions[DIVISION_ORDER[i]].teams) = 1)
    /\ [](pc = "semifinal"
            => Len(final_four_winners) <= 2)
    /\ [](pc \in {"championship", "write", "done"}
            => Len(final_four_winners) = 2)
    /\ [][ /\ PhaseRank' >= PhaseRank
           /\ PhaseRank' > PhaseRank => (PhaseRank' = PhaseRank + 1 \/ pc' = "error")
           /\ pc = "championship" => pc' \in {"write", "error"}
           /\ pc' = "championship" => Len(final_four_winners) = 2
           /\ pc = "semifinal" /\ pc' = "semifinal"
                => Len(final_four_winners') = Len(final_four_winners) + 1 ]_vars
    /\ ( pc = "start" /\ decider.fault # "raise" /\ ValidBracket(input_bracket) )
          => <>(pc = "done")

\* C14 witness: a run on a valid bracket is complete, every division is down
\* to one team and two semifinals were decided
C14_Witness ==
    /\ pc = "done"
    /\ decider.fault # "raise"
    /\ ValidBracket(input_bracket)
    /\ \A d \in DOMAIN divisions : Len(divisions[d].teams) = 1
    /\ Len(final_four_winners) = 2
    /\ fight.label = "Championship"

-----------------------------------------------------------------------------
(* FightResult and FightSimulator._parse_claude_response                     *)
(* A string is a sequence of characters; a response text is a sequence of    *)
(* tokens: "{", "}", "t" (any other text) and "D" (the members of a JSON     *)
(* object, whose values are the record data).                                *)

\* names are at most this long; a declared winner may be one character longer
MaxNameLen == 2

Chars == {"w", "W", "s"}

\* str.lower() on one character
LowerChar(c) == IF c = "W" THEN "w" ELSE c

\* str.lower()
Lower(s) == [i \in DOMAIN s |-> LowerChar(s[i])]

\* needle in hay
Contains(needle, hay) ==
    \E i \in 0 .. (Len(hay) - Len(needle)) :
        SubSeq(hay, i + 1, i + Len(needle)) = needle

Strings(n) == UNION { [1 .. k -> Chars] : k \in 0 .. n }

TeamNames == Strings(MaxNameLen) \ { << >> }

\* variant: the limits 0 and 100 are themselves refused
NewFightResult_exclusive(winner, loser, win_probability, narrative) ==
    IF ~(0 < win_probability /\ win_probability < 100) THEN Raise("ValueError")
    ELSE IF winner = << >> THEN Raise("ValueError")
    ELSE IF loser = << >> THEN Raise("ValueError")
    ELSE IF narrative = << >> THEN Raise("ValueError")
    ELSE Return([winner |-> winner, loser |-> loser,
                 win_probability |-> win_probability, narrative |-> narrative])

\* FightResult(winner, loser, win_probability, narrative) with __post_init__
NewFightResult(winner, loser, win_probability, narrative) ==
    IF ~(0 <= win_probability /\ win_probability <= 100) THEN Raise("ValueError")
    ELSE IF winner = << >> THEN Raise("ValueError")
    ELSE IF loser = << >> THEN Raise("ValueError")
    ELSE IF narrative = << >> THEN Raise("ValueError")
    ELSE Return([winner |-> winner, loser |-> loser,
                 win_probability |-> win_probability, narrative |-> narrative])

\* raw_text.find("{"): 0 stands for -1
FindBrace(text) ==
    IF \E i \in DOMAIN text : text[i] = "{"
    THEN CHOOSE i \in DOMAIN text :
            /\ text[i] = "{"
            /\ \A j \in 1 .. (i - 1) : text[j] # "{"
    ELSE 0

\* the loop over raw_text[start:]: the index of the brace that closes the
\* first one, 0 when the loop ends without a break
RECURSIVE ScanEnd(_, _, _)
ScanEnd(text, i, depth) ==
    IF i > Len(text) THEN 0
    ELSE LET d == IF text[i] = "{" THEN depth + 1
                  ELSE IF text[i] = "}" THEN depth - 1
                  ELSE depth
         IN  IF text[i] = "}" /\ d = 0 THEN i ELSE ScanEnd(text, i + 1, d)

AbsentField == [kind |-> "absent", text |-> << >>, n |-> 0]

StringField(s) == [kind |-> "string", text |-> s, n |-> 0]

NumberField(k) == [kind |-> "number", text |-> << >>, n |-> k]

EmptyObject ==
    [winner |-> AbsentField, win_probability |-> AbsentField,
     narrative |-> AbsentField]

\* json.loads(json_str): the object's members, JSONDecodeError (a ValueError)
\* for anything that is not one JSON object
json_loads(json_str, data) ==
    IF json_str = << "{", "D", "}" >> THEN Return(data)
    ELSE IF json_str = << "{", "}" >> THEN Return(EmptyObject)
    ELSE Raise("ValueError")

\* lines 128-154: the first balanced {...} of the text, parsed
ExtractJson(resp) ==
    LET start == FindBrace(resp.text)
    IN  IF start = 0 THEN Raise("ValueError")
        ELSE LET end == ScanEnd(resp.text, start, 0)
             IN  IF end = 0 THEN Raise("ValueError")
                 ELSE json_loads(SubSeq(resp.text, start, end), resp.data)

\* team.lower() in raw_winner.lower() or raw_winner.lower() in team.lower()
SubstringMatch(team, raw_winner) ==
    \/ Contains(Lower(team), Lower(raw_winner))
    \/ Contains(Lower(raw_winner), Lower(team))

\* lines 160-181: (winner, loser) for the declared winner
MatchWinner(raw_winner, team1, team2) ==
    IF Lower(raw_winner) = Lower(team1) THEN Return(<< team1, team2 >>)
    ELSE IF Lower(raw_winner) = Lower(team2) THEN Return(<< team2, team1 >>)
    ELSE IF SubstringMatch(team1, raw_winner) THEN Return(<< team1, team2 >>)
    ELSE IF SubstringMatch(team2, raw_winner) THEN Return(<< team2, team1 >>)
    ELSE Raise("ValueError")

\* FightSimulator._parse_claude_response(raw_text, team1, team2)
parse_claude_response(resp, team1, team2) ==
    LET j == ExtractJson(resp)
    IN  IF j.error # "none" THEN Raise(j.error)
        ELSE LET data == j.value
                 \* data.get("winner", ""), data.get("win_probability", 0),
                 \* data.get("narrative", "")
                 probability == IF data.win_probability.kind = "absent"
                                THEN 0 ELSE data.win_probability.n
                 narrative == data.narrative.text
             IN  IF data.winner.kind = "number"
                 THEN Raise("AttributeError")    \* int has no lower()
                 ELSE LET m == MatchWinner(data.winner.text, team1, team2)
                      IN  IF m.error # "none" THEN Raise(m.error)
                          ELSE NewFightResult(m.value[1], m.value[2],
                                              probability, narrative)

\* the members of the JSON objects tried
ResponseData ==
    { [winner |-> w, win_probability |-> pn[1], narrative |-> pn[2]] :
        w \in { AbsentField, NumberField(1) }
                \cup { StringField(s) : s \in Strings(MaxNameLen + 1) },
        pn \in { << NumberField(72), StringField(<< "t" >>) >>,
                 << NumberField(101), StringField(<< "t" >>) >>,
                 << AbsentField, StringField(<< "t" >>) >>,
                 << NumberField(72), AbsentField >> } }

PlainData ==
    [winner |-> StringField(<< "w" >>), win_probability |-> NumberField(72),
     narrative |-> StringField(<< "t" >>)]

\* the response texts tried: a bare object with every data, and one data in
\* other texts (no object, unbalanced, not JSON, fenced, trailing brace,
\* empty object, nested braces)
Responses ==
    { [text |-> << "{", "D", "}" >>, data |-> d] : d \in ResponseData }
        \cup { [text |-> t, data |-> PlainData] :
                 t \in { << "t" >>, << "{", "D" >>, << "{", "t", "}" >>,
                         << "t", "{", "D", "}", "t" >>,
                         << "{", "D", "}", "}" >>, << "{", "}" >>,
                         << "{", "{", "D", "}", "}" >> } }

CallParseClaudeResponse ==
    /\ ncalls = 0
    /\ \E resp \in Responses, team1 \in TeamNames, team2 \in TeamNames :
        /\ LET r == parse_claude_response(resp, team1, team2)
           IN  call' = [op |-> "_parse_claude_response", division |-> "none",
                        arg |-> [response |-> resp, team1 |-> team1,
                                 team2 |-> team2],
                        error |-> r.error, value |-> r.value]
        /\ ncalls' = ncalls + 1
        /\ UNCHANGED divisions
        /\ UNCHANGED run_vars

SpecParse ==
    RunInit(FullBracket(0), AlwaysFirstSimulator)
        /\ [][CallParseClaudeResponse]_vars

\* the declared winner of a parsed response: data.get("winner", "")
DeclaredWinner == ExtractJson(call.arg.response).value.winner

ParsedObject ==
    /\ call.op = "_parse_claude_response"
    /\ ExtractJson(call.arg.response).error = "none"

\* C18: when the declared winner, a non-empty string, equals neither of two
\* distinct team names case-insensitively but matches both names by
\* substring containment, _parse_claude_response raises a validation error instead of picking one of the two teams.
C18_AmbiguousSubstringRejected ==
    ( /\ ParsedObject
      /\ call.arg.team1 # call.arg.team2
      /\ DeclaredWinner.kind = "string"
      /\ DeclaredWinner.text # << >>
      /\ Lower(DeclaredWinner.text) # Lower(call.arg.team1)
      /\ Lower(DeclaredWinner.text) # Lower(call.arg.team2)
      /\ SubstringMatch(call.arg.team1, DeclaredWinner.text)
      /\ SubstringMatch(call.arg.team2, DeclaredWinner.text) )
        => call.error = "ValueError"

\* C19: for every response text and distinct team names,
\* _parse_claude_response either raises ValueError or returns a result whose
\* winner and loser are team1 and team2, one each, the winner being the team
\* the declared winner equals case-insensitively; a declared winner that
\* equals neither name, an empty or absent one included, gives ValueError.
C19_WinnerIsDeclaredTeamOrValueError ==
    ( /\ call.op = "_parse_claude_response"
      /\ call.arg.team1 # call.arg.team2 )
        => /\ \/ call.error = "ValueError"
              \/ /\ call.error = "none"
                 /\ << call.value.winner, call.value.loser >>
                        \in { << call.arg.team1, call.arg.team2 >>,
                              << call.arg.team2, call.arg.team1 >> }
                 /\ DeclaredWinner.kind = "string"
                 /\ Lower(DeclaredWinner.text) = Lower(call.value.winner)
           /\ ( /\ ParsedObject
                /\ \/ DeclaredWinner.kind # "string"
                   \/ /\ Lower(DeclaredWinner.text) # Lower(call.arg.team1)
                      /\ Lower(DeclaredWinner.text) # Lower(call.arg.team2) )
                => call.error = "ValueError"

-----------------------------------------------------------------------------
(* BracketFileParser.parse                                                   *)
(* A file is a sequence of lines, a line a sequence of characters.           *)

DIVISION_SIZE == 17

TEAMS_PER_DIVISION == 16

EXPECTED_DIVISIONS == 4

EXPECTED_TOTAL_LINES == 68

\* at most this many blank lines in a file
MaxBlank == 1

\* a file has at most this many lines more or fewer than EXPECTED_TOTAL_LINES
MaxOff == 1

\* the cased characters of the lines, << lower, upper >>
Letters == << << "w", "W" >>, << "e", "E" >>, << "s", "S" >>, << "m", "M" >> >>

Digits == << "0", "1", "2", "3", "4", "5", "6", "7", "8", "9" >>

IsCased(c) == \E i \in DOMAIN Letters : c = Letters[i][1] \/ c = Letters[i][2]

LetterIndex(c) ==
    CHOOSE i \in DOMAIN Letters : c = Letters[i][1] \/ c = Letters[i][2]

\* str.title(): a cased character is upper case after an uncased one (or at
\* the start) and lower case after a cased one
Title(s) ==
    [i \in DOMAIN s |->
        IF ~IsCased(s[i]) THEN s[i]
        ELSE IF i = 1 \/ ~IsCased(s[i - 1]) THEN Letters[LetterIndex(s[i])][2]
        ELSE Letters[LetterIndex(s[i])][1]]

RECURSIVE LStrip(_)
LStrip(s) == IF s # << >> /\ Head(s) = " " THEN LStrip(Tail(s)) ELSE s

RECURSIVE RStrip(_)
RStrip(s) ==
    IF s # << >> /\ s[Len(s)] = " " THEN RStrip(SubSeq(s, 1, Len(s) - 1))
    ELSE s

\* str.strip()
Strip(s) == RStrip(LStrip(s))

NonBlank(line) == line # << >>

\* _read_lines: every line stripped, the blank ones dropped
read_lines(raw_lines) ==
    SelectSeq([i \in DOMAIN raw_lines |-> Strip(raw_lines[i])], NonBlank)

\* _parse_division(lines, offset): offset counts from 0 as in the code
parse_division(lines, offset) ==
    [title |-> Title(Strip(lines[offset + 1])),
     teams |-> [i \in 1 .. TEAMS_PER_DIVISION |->
                    Team(lines[offset + 1 + i], i)]]

\* the loop of parse: divisions[title] = Division(...), a later division
\* of the same title replaces the earlier one
BuildDivisions(lines) ==
    LET parsed == [i \in 1 .. EXPECTED_DIVISIONS |->
                      parse_division(lines, (i - 1) * DIVISION_SIZE)]
        last(t) == SetMax({ i \in 1 .. EXPECTED_DIVISIONS : parsed[i].title = t })
    IN  [t \in { parsed[i].title : i \in 1 .. EXPECTED_DIVISIONS } |->
            Division(t, parsed[last(t)].teams)]

\* BracketFileParser.parse(source)
parse(file) ==
    IF ~file.exists THEN Raise("FileNotFoundError")
    ELSE LET lines == read_lines(file.raw_lines)
         IN  IF Len(lines) # EXPECTED_TOTAL_LINES THEN Raise("ValueError")
             ELSE Return(BuildDivisions(lines))

\* the title lines tried: four plain titles, two spellings that title() and
\* strip() turn into the first, and a two-letter title
TitleLines ==
    { << "W" >>, << "w" >>, << " ", "W", " " >>, << "E" >>, << "S" >>,
      << "M" >>, << "m", "E" >> }

\* the line of the team of seed i in the d-th division of a file
TeamLine(d, i) == << Digits[d + 1], Digits[(i \div 10) + 1], Digits[(i % 10) + 1] >>

DivisionLines(d, title) ==
    << title >> \o [i \in 1 .. TEAMS_PER_DIVISION |-> TeamLine(d, i)]

\* four divisions under the given titles, `blanks` blank lines after the
\* first title, and off lines more (or -off lines fewer) at the end
FileLines(titles, blanks, off) ==
    LET d1 == DivisionLines(1, titles[1])
        body == << Head(d1) >> \o [i \in 1 .. blanks |-> << " " >>] \o Tail(d1)
                    \o DivisionLines(2, titles[2])
                    \o DivisionLines(3, titles[3])
                    \o DivisionLines(4, titles[4])
    IN  IF off < 0 THEN SubSeq(body, 1, Len(body) + off)
        ELSE body \o [i \in 1 .. off |-> TeamLine(5, i)]

Files ==
    { [exists |-> FALSE, raw_lines |-> << >>] }
        \cup { [exists |-> TRUE, raw_lines |-> FileLines(titles, blanks, off)] :
                 titles \in TitleLines \X TitleLines \X TitleLines \X TitleLines,
                 blanks \in 0 .. MaxBlank,
                 off \in (0 - MaxOff) .. MaxOff }

CallParse ==
    /\ ncalls = 0
    /\ \E file \in Files :
        /\ LET r == parse(file)
           IN  call' = [op |-> "parse", division |-> "none", arg |-> file,
                        error |-> r.error, value |-> r.value]
        /\ ncalls' = ncalls + 1
        /\ UNCHANGED divisions
        /\ UNCHANGED run_vars

SpecParser ==
    RunInit(FullBracket(0), AlwaysFirstSimulator) /\ [][CallParse]_vars

\* C20: whenever parse returns, the Bracket has exactly 4 divisions, each
\* with exactly 16 teams whose seeds are 1..16 in file order; parse raises
\* ValueError whenever the file does not have exactly 68 non-blank lines.
C20_ParsedBracketIsFourBySixteen ==
    ( /\ call.op = "parse"
      /\ call.arg.exists )
        => /\ call.error = "none"
              => /\ Cardinality(DOMAIN call.value) = 4
                 /\ \A t \in DOMAIN call.value :
                        /\ Len(call.value[t].teams) = 16
                        /\ \A i \in 1 .. 16 : call.value[t].teams[i].seed = i
                        /\ \E k \in 0 .. 3 :
                              \A i \in 1 .. 16 :
                                  call.value[t].teams[i].name
                                      = read_lines(call.arg.raw_lines)[17 * k + 1 + i]
           /\ Len(read_lines(call.arg.raw_lines)) # 68
                => call.error = "ValueError"

-----------------------------------------------------------------------------
(* FightResult constructed directly *)

\* the strings tried as winner, loser and narrative, the empty one included
FieldStrings == Strings(1)

\* the probabilities tried: both limits, their outer neighbours, one inside
ProbabilityArgs == {-1, 0, 50, 100, 101}

CallFightResult ==
    /\ ncalls = 0
    /\ \E w \in FieldStrings, l \in FieldStrings, n \in FieldStrings,
          p \in ProbabilityArgs :
        /\ LET r == NewFightResult(w, l, p, n)
           IN  call' = [op |-> "FightResult", division |-> "none",
                        arg |-> [winner |-> w, loser |-> l,
                                 win_probability |-> p, narrative |-> n],
                        error |-> r.error, value |-> r.value]
        /\ ncalls' = ncalls + 1
        /\ UNCHANGED divisions
        /\ UNCHANGED run_vars

SpecFightResult ==
    RunInit(FullBracket(0), AlwaysFirstSimulator) /\ [][CallFightResult]_vars

\* C21: a FightResult is constructed exactly when 0 <= win_probability <= 100
\* and winner, loser and narrative are non-empty; every other construction
\* (win_probability -1 or 101, an empty string) raises ValueError, and the
\* limits 0 and 100 are accepted.
C21_FightResultValidated ==
    call.op = "FightResult"
        => LET a == call.arg
               valid == /\ 0 <= a.win_probability
                        /\ a.win_probability <= 100
                        /\ a.winner # << >>
                        /\ a.loser # << >>
                        /\ a.narrative # << >>
           IN  /\ valid => /\ call.error = "none"
                           /\ call.value = a
               /\ ~valid => call.error = "ValueError"

C21_Witness ==
    /\ call.op = "FightResult"
    /\ call.arg.win_probability = 100
    /\ call.error = "none"
    /\ call.value.win_probability = 100

-----------------------------------------------------------------------------
(* Properties of Tournament.run on valid brackets *)

\* C22: during run on a valid 4x16 bracket each division's team count takes
\* the values 16, 8, 4, 2, 1 in that order: it halves on every advance_round
\* and never grows, so every division plays 4 rounds of 8, 4, 2 and 1 games.
C22_TeamCountHalves ==
    /\ []( \/ \A d \in DOMAIN divisions :
                 Len(divisions[d].teams) \in {16, 8, 4, 2, 1}
           \/ ~ValidBracket(input_bracket) )
    /\ []( pc = "game"
             => \/ /\ round_idx \in 0 .. 3
                   /\ Len(matchups) = << 8, 4, 2, 1 >>[round_idx + 1]
                   /\ 2 * Len(matchups) = Len(divisions[CurrentDivision].teams)
                \/ ~ValidBracket(input_bracket) )
    /\ []( (pc = "round_loop" /\ ~RoundsRemain(teams_count))
             => \/ /\ round_idx = 4
                   /\ Len(divisions[CurrentDivision].teams) = 1
                \/ ~ValidBracket(input_bracket) )
    /\ [][ \/ divisions' = divisions
           \/ \A d \in DOMAIN divisions :
                 \/ divisions'[d] = divisions[d]
                 \/ 2 * Len(divisions'[d].teams) = Len(divisions[d].teams)
           \/ ~ValidBracket(input_bracket) ]_vars

C22_Witness ==
    /\ pc = "round_loop"
    /\ div_idx = 4
    /\ round_idx = 4
    /\ teams_count = 1
    /\ Len(divisions["Midwest"].teams) = 1
    /\ ValidBracket(input_bracket)

\* C23: within a division round the simulator is invoked once per matchup, in
\* matchup order, and the list handed to advance_round holds the winner of
\* pair 0, then pair 1, and so on; all games of West are decided before any
\* game of East, then South, then Midwest, one game after the other.
C23_GamesInPairAndDivisionOrder ==
    /\ [][ (pc = "game" /\ call_count' # call_count)
             => LET k == Len(round_winners) + 1
                IN  /\ call_count' = call_count + 1
                    /\ k <= Len(matchups)
                    /\ \E j \in DOMAIN input_bracket[CurrentDivision].teams :
                          input_bracket[CurrentDivision].teams[j] = matchups[k][1]
                    /\ \E j \in DOMAIN input_bracket[CurrentDivision].teams :
                          input_bracket[CurrentDivision].teams[j] = matchups[k][2]
                    /\ pc' = "game"
                         => /\ fight'.team1 = matchups[k][1].name
                            /\ fight'.team2 = matchups[k][2].name
                            /\ matchups' = matchups
                            /\ Len(round_winners') = k
                            /\ SubSeq(round_winners', 1, k - 1) = round_winners
                            /\ fight'.winner = matchups[k][1].name
                                 => round_winners'[k] = matchups[k][1]
                            /\ fight'.winner = matchups[k][2].name
                                 => round_winners'[k] = matchups[k][2] ]_vars
    /\ [][ (pc = "game" /\ pc' = "round_loop")
             => /\ Len(round_winners) = Len(matchups)
                /\ divisions'[CurrentDivision].teams = round_winners
                /\ call_count' = call_count ]_vars
    /\ []( pc = "game"
             => \/ /\ DOMAIN divisions = DivisionNames
                   /\ call_count = 15 * (div_idx - 1) + (16 - teams_count)
                                       + Len(round_winners)
                   /\ \A i \in DOMAIN DIVISION_ORDER :
                         /\ i < div_idx
                              => Len(divisions[DIVISION_ORDER[i]].teams) = 1
                         /\ i > div_idx
                              => divisions[DIVISION_ORDER[i]]
                                    = input_bracket[DIVISION_ORDER[i]]
                \/ ~ValidBracket(input_bracket) )

C23_Witness ==
    /\ pc = "game"
    /\ div_idx = 2
    /\ round_idx = 1
    /\ Len(round_winners) = 3
    /\ call_count = 26
    /\ fight.team1 = matchups[3][1].name
    /\ ValidBracket(input_bracket)

\* the seeds of the two first-round pairs that feed slot i (from 1) of a
\* division of four teams
QuarterSeeds(i) ==
    { ROUND_ONE_BRACKET[2 * i - 1][1], ROUND_ONE_BRACKET[2 * i - 1][2],
      ROUND_ONE_BRACKET[2 * i][1], ROUND_ONE_BRACKET[2 * i][2] }

\* C24: whatever the outcomes in a validly seeded division, when 4 teams
\* remain slot 0 holds a seed of {1,16,8,9}, slot 1 of {5,12,4,13}, slot 2 of
\* {6,11,3,14}, slot 3 of {7,10,2,15}; the 1-seed and the 2-seed meet only
\* in the division final, with 2 teams remaining.
C24_QuartersPreserved ==
    \/ /\ QuarterSeeds(1) = {1, 16, 8, 9}
       /\ QuarterSeeds(2) = {5, 12, 4, 13}
       /\ QuarterSeeds(3) = {6, 11, 3, 14}
       /\ QuarterSeeds(4) = {7, 10, 2, 15}
       /\ \A d \in DOMAIN divisions :
             Len(divisions[d].teams) = 4
                => \A i \in 1 .. 4 : divisions[d].teams[i].seed \in QuarterSeeds(i)
       /\ pc = "game"
             => \A k \in DOMAIN matchups :
                   { matchups[k][1].seed, matchups[k][2].seed } = {1, 2}
                      => /\ Len(divisions[CurrentDivision].teams) = 2
                         /\ Len(matchups) = 1
    \/ ~ValidBracket(input_bracket)

C24_Witness ==
    /\ pc = "game"
    /\ round_idx = 2
    /\ Len(divisions["West"].teams) = 4
    /\ divisions["West"].teams[1].seed = 9
    /\ divisions["West"].teams[4].seed = 2
    /\ Len(round_winners) = 1
    /\ ValidBracket(input_bracket)

\* the elements of a list, and a list without repetition
Elements(seq) == { seq[i] : i \in DOMAIN seq }

NoDuplicates(seq) == \A i, j \in DOMAIN seq : seq[i] = seq[j] => i = j

\* team1, team2 of every pair, in order
BothSides(ms) == [i \in 1 .. 2 * Len(ms) |-> ms[(i + 1) \div 2][2 - (i % 2)]]

\* the teams that are still in their division's list, have won their
\* semifinal and are named as the champion
NeverLost ==
    { t \in UNION { Elements(divisions[d].teams) : d \in DOMAIN divisions } :
        /\ t \in Elements(final_four_winners)
        /\ t.name = champion }

\* C25: single elimination, with a simulator that names one of the two
\* teams: a division's team list has no duplicates and holds only teams
\* originally of that division; a team dropped from the list never returns,
\* and the teams dropped by a round are the losers of its games; the
\* matchups of a round hold every remaining team exactly once; at completion
\* exactly one of the 64 teams has never lost.
C25_SingleElimination ==
    /\ []( \A d \in DOMAIN divisions :
              /\ NoDuplicates(divisions[d].teams)
              /\ Elements(divisions[d].teams) \subseteq Elements(input_bracket[d].teams) )
    /\ [][ \A d \in DOMAIN divisions :
              Elements(divisions'[d].teams) \subseteq Elements(divisions[d].teams) ]_vars
    /\ []( pc = "game"
             => /\ NoDuplicates(BothSides(matchups))
                /\ Elements(BothSides(matchups))
                      = Elements(divisions[CurrentDivision].teams) )
    /\ [][ (pc = "game" /\ Len(round_winners') = Len(round_winners) + 1)
             => LET k == Len(round_winners) + 1
                IN  /\ round_winners'[k] \in { matchups[k][1], matchups[k][2] }
                    /\ decider.fault # "wrong_winner"
                          => round_winners'[k].name = fight'.winner ]_vars
    /\ [][ (pc = "game" /\ pc' = "round_loop")
             => /\ divisions'[CurrentDivision].teams = round_winners
                /\ \A k \in DOMAIN matchups :
                      round_winners[k] \in { matchups[k][1], matchups[k][2] } ]_vars
    /\ []( pc \in {"semifinal", "championship", "write", "done"}
             => /\ NoDuplicates(BothSides(matchups))
                /\ Elements(BothSides(matchups))
                      = UNION { Elements(divisions[d].teams) : d \in DOMAIN divisions }
                /\ \A k \in DOMAIN final_four_winners :
                      final_four_winners[k] \in { matchups[k][1], matchups[k][2] } )
    /\ [][ ( /\ pc = "semifinal"
             /\ Len(final_four_winners') = Len(final_four_winners) + 1
             /\ decider.fault # "wrong_winner" )
             => final_four_winners'[Len(final_four_winners')].name = fight'.winner ]_vars
    /\ []( pc \in {"championship", "write", "done"}
             => Elements(finalists) = Elements(final_four_winners) )
    /\ []( (pc = "done" /\ decider.fault # "wrong_winner")
             => \/ /\ Cardinality(NeverLost) = 1
                   /\ Cardinality(UNION { Elements(input_bracket[d].teams) :
                                            d \in DOMAIN input_bracket }) = 64
                \/ ~ValidBracket(input_bracket) )

C25_Witness ==
    /\ pc = "done"
    /\ decider.fault = "none"
    /\ decider.scope = "Final"
    /\ Cardinality(NeverLost) = 1
    /\ champion \notin { divisions["West"].teams[1].name }
    /\ ValidBracket(input_bracket)

\* C26: in every completed run the region champion recorded for a division
\* is that division's sole remaining team, the four semifinalists are the
\* four region champions, the two finalists are the two semifinal winners,
\* and the reported champion is one of the two finalists.
C26_ChampionIsAFinalist ==
    pc = "done"
        => /\ DOMAIN region_winners = DOMAIN divisions
           /\ \A d \in DOMAIN divisions :
                 divisions[d].teams = << region_winners[d] >>
           /\ Len(matchups) = 2
           /\ Elements(BothSides(matchups))
                 = { region_winners[d] : d \in DOMAIN region_winners }
           /\ finalists = << final_four_winners[1], final_four_winners[2] >>
           /\ Len(final_four_winners) = 2
           /\ champion \in { finalists[1].name, finalists[2].name }

====
